---- MODULE Spec2Model ----
(***************************************************************************)
(* The training and validation loops of the notebooks                      *)
(*   "Part 4 - Training Neural Networks" (src/unnamed/part_000) and        *)
(*   "Part 5 - Inference and Validation (Exercises)".                      *)
(*                                                                         *)
(* The cells of a notebook are run in order, statement by statement.  The  *)
(* state is the kernel's: the Python variables the cells bind (model,      *)
(* optimizer, images, labels, output, loss, ...), the train/eval flag of   *)
(* the model, the gradient accumulator of its parameters, autograd's       *)
(* grad-mode flag and the position of the data loader's iterator.          *)
(*                                                                         *)
(* Tensors are scaled down: a model has one weight (a fixed-point number   *)
(* in thousandths), an example one feature, a batch BatchSize examples     *)
(* (the last batch of a loader is smaller, as 60000 and 10000 are no       *)
(* multiples of 64), and there are two classes.  The unit of the network   *)
(* computes feature - weight; a positive activation votes class 1.         *)
(***************************************************************************)
EXTENDS Integers, Sequences, FiniteSets, TLC

\* ---------------------------------------------------------------- bounds
MaxScore == 2
MaxBackwards == 3
MaxSteps == 2
NumTrainBatches == 3
NumTestBatches == 3
BatchSize == 2

\* ------------------------------------------------------ program constants
Pixels == 784
ImageSide == 28
NumClasses == 10
EpochsPart4 == 10
EpochsPart5 == 30
LrDemo == 10
LrPart4 == 3
LrPart5 == 3
InitWeight == 0

\* ------------------------------------------------------------------ input
\* What is wrong with the data the loaders yield, if anything; it does not
\* change while the kernel runs.
VARIABLE fault

\* ------------------------------------------------------------ data source
\* A batch is named by its loader and its index in the data set.
TrainBatches == 1..NumTrainBatches
TestBatches == 1..NumTestBatches

BatchRef(src, id) == [src |-> src, id |-> id]
NoBatch == [src |-> "none", id |-> 0]

LoaderLen(src) == IF src = "train" THEN NumTrainBatches ELSE NumTestBatches

\* len of a batch: batch_size, but for the loader's last batch
BatchLen(b) ==
    IF b.src = "none" THEN 0
    ELSE IF b.src \in {"train[0]", "test[0]"} THEN 1
    ELSE IF b.id = LoaderLen(b.src) /\ BatchSize > 1 THEN BatchSize - 1
    ELSE BatchSize

Feature(b, i) == (IF b.src \in {"train", "train[0]"} THEN 4 ELSE 6) + 8 * (b.id - 1) + 5 * (i - 1)

TrueLabel(b, i) == IF Feature(b, i) >= 10 THEN 1 ELSE 0

\* the labels tensor of a batch
LabelsOf(b) == [i \in 1..BatchLen(b) |-> TrueLabel(b, i)]

\* the dropout masks a forward pass in train-mode can draw: the set of
\* examples whose unit is zeroed
Masks(b) == SUBSET (1..BatchLen(b))


NoFault == [kind |-> "none", batch |-> NoBatch]

\* The defects the run can meet: a training batch whose images do not hold
\* 784 values each ("shape"), a training batch with a label outside 0..9
\* ("label"), a forward pass of the inference cell that raises ("forward").
Faults ==
    {NoFault, [kind |-> "forward", batch |-> NoBatch]}
    \cup {[kind |-> k, batch |-> BatchRef("train", b)] :
             k \in {"shape", "label"}, b \in TrainBatches}

\* the images of batch b hold 784 values each
ShapeOk(b) == ~(fault.kind = "shape" /\ fault.batch = b)

\* every label of batch b is a class index
LabelsOk(b) == ~(fault.kind = "label" /\ fault.batch = b)

\* images as the loader yields them: (batch, 1, 28, 28), not flattened
ImagesOf(b) == [src |-> b.src, id |-> b.id, flat |-> FALSE, ok |-> ShapeOk(b)]
NoImages == [src |-> "none", id |-> 0, flat |-> FALSE, ok |-> TRUE]

\* the size of the last dimension of the tensor the first nn.Linear of a
\* network of this kind is given: 784 when the images are flattened, in the
\* cell or in forward, 28 when they still are (batch, 1, 28, 28)
InputWidth(im, flattens) ==
    IF im.flat \/ flattens THEN (IF im.ok THEN Pixels ELSE Pixels - ImageSide)
    ELSE ImageSide

\* images[0].view(1, 784): the first image of the batch, as a batch of one
FirstImage(im) ==
    [src |-> IF im.src = "train" THEN "train[0]" ELSE "test[0]", id |-> im.id,
     flat |-> TRUE, ok |-> TRUE]
RefOf(im) == BatchRef(im.src, im.id)

\* The batches a running iterator can yield next.  shuffle=True: any order;
\* the short batch is made of what is left over, so it comes last.
CanYield(src, it) == {b \in it : b # LoaderLen(src) \/ it = {b}}

\* mutant: the iterator forgets that it has yielded b
RemainingForgets(it, b) == it

\* what the iterator still holds once it has yielded b
Remaining(it, b) == it \ {b}

\* ----------------------------------------------------------------- tensors
NoTensor ==
    [batch |-> NoBatch, rows |-> <<>>, dropped |-> {}, graph |-> FALSE,
     training |-> FALSE, model |-> 0, scale |-> "none", vals |-> <<>>]

NoLoss ==
    [val |-> 0, g |-> 0, batch |-> NoBatch, model |-> 0, graph |-> "none",
     crit |-> "none", scale |-> "none"]

NoModel ==
    [id |-> 0, kind |-> "none", weight |-> 0, grad |-> <<>>, parts |-> <<>>,
     vals |-> <<>>, reached |-> FALSE, layers |-> <<>>,
     training |-> FALSE]

NoOptimizer == [kind |-> "none", lr |-> 0, over |-> 0, t |-> 0]

\* mutant: a second layer that does not fit the first
LayersMisfit(kind) ==
    IF kind \in {"Classifier", "Network"}
    THEN <<[in |-> Pixels, out |-> 256], [in |-> 128, out |-> 128],
           [in |-> 128, out |-> 64], [in |-> 64, out |-> NumClasses]>>
    ELSE <<[in |-> Pixels, out |-> 128], [in |-> 64, out |-> 64],
           [in |-> 64, out |-> NumClasses]>>

\* the nn.Linear layers of each network, in order
Layers(kind) ==
    IF kind \in {"Classifier", "Network"}
    THEN <<[in |-> Pixels, out |-> 256], [in |-> 256, out |-> 128],
           [in |-> 128, out |-> 64], [in |-> 64, out |-> NumClasses]>>
    ELSE <<[in |-> Pixels, out |-> 128], [in |-> 128, out |-> 64],
           [in |-> 64, out |-> NumClasses]>>

\* mutant: a model built with zeroed gradients
FreshModelZeroGrad(id, kind) ==
    [id |-> id, kind |-> kind, weight |-> InitWeight, grad |-> <<0>>,
     parts |-> <<>>, vals |-> <<>>, reached |-> FALSE,
     layers |-> Layers(kind), training |-> TRUE]

\* nn.Sequential(...) / Classifier() / Network(): fresh parameters, no
\* gradient yet, train-mode (nn.Module's default); .reached tells whether a
\* backward pass has reached the parameters of this instance
FreshModel(id, kind) ==
    [id |-> id, kind |-> kind, weight |-> InitWeight, grad |-> <<>>,
     parts |-> <<>>, vals |-> <<>>, reached |-> FALSE,
     layers |-> Layers(kind), training |-> TRUE]

HasDropout(kind) == kind = "Network"

\* what the last layer yields: raw scores when the network ends in a
\* Linear layer, log-probabilities when it ends in LogSoftmax / log_softmax
OutScale(kind) == IF kind = "SequentialRaw" THEN "logits" ELSE "logprob"

\* mutant: no forward flattens its input
FlattensInputNowhere(kind) == FALSE

\* x = x.view(x.shape[0], -1) at the top of forward
FlattensInput(kind) == kind \in {"Classifier", "Network"}

\* mutant: dropout that stays on in eval-mode
DropoutMaskInEveryMode(m, mask) == IF HasDropout(m.kind) THEN mask ELSE {}

\* nn.Dropout: zeroes units in train-mode only
DropoutMask(m, mask) == IF m.training /\ HasDropout(m.kind) THEN mask ELSE {}

\* the activation of the unit for example i, after dropout
Activation(m, b, i, mask) ==
    IF i \in DropoutMask(m, mask) THEN 0 ELSE Feature(b, i) - m.weight

\* the score the last affine layer gives a class, kept within a range the
\* arithmetic below can hold
Saturate(a) ==
    IF a > MaxScore THEN MaxScore ELSE IF a < -MaxScore THEN -MaxScore ELSE a

RECURSIVE Pow2(_)
Pow2(n) == IF n <= 0 THEN 1 ELSE 2 * Pow2(n - 1)

\* A real number v is kept as the fraction 2^v, so that the exponential of
\* an entry can be read exactly; logarithms and exponentials are to base 2.
AntiLog(s) ==
    IF s >= 0 THEN [num |-> Pow2(s), den |-> 1] ELSE [num |-> 1, den |-> Pow2(-s)]

MinScore(sc) == IF sc[1] < sc[2] THEN sc[1] ELSE sc[2]
SumWeights(sc) == Pow2(sc[1] - MinScore(sc)) + Pow2(sc[2] - MinScore(sc))

\* mutant: scores normalised by the largest term only
LogSoftmaxRowByMax(sc) ==
    [c \in 1..2 |->
        [num |-> Pow2(sc[c] - MinScore(sc)),
         den |-> Pow2(sc[1] + sc[2] - 2 * MinScore(sc))]]

\* nn.LogSoftmax(dim=1) / F.log_softmax(x, dim=1) on one row:
\* s_c - log(sum_k exp(s_k)), whose exponential is exp(s_c) / sum_k exp(s_k)
LogSoftmaxRow(sc) ==
    [c \in 1..2 |-> [num |-> Pow2(sc[c] - MinScore(sc)), den |-> SumWeights(sc)]]

\* the row a network yields for class scores sc: the scores themselves when
\* it ends in nn.Linear, their log-softmax otherwise
LastLayer(kind, sc) ==
    IF OutScale(kind) = "logits" THEN [c \in 1..2 |-> AntiLog(sc[c])]
    ELSE LogSoftmaxRow(sc)

\* model(images): one row of class scores (log-probabilities) per example;
\* the graph is recorded when grad mode is on
ForwardPass(m, b, mask, ge) ==
    [batch |-> b,
     rows |-> [i \in 1..BatchLen(b) |-> <<0, Activation(m, b, i, mask)>>],
     dropped |-> DropoutMask(m, mask),
     graph |-> ge,
     training |-> m.training,
     model |-> m.id,
     scale |-> OutScale(m.kind),
     vals |-> [i \in 1..BatchLen(b) |->
                 LastLayer(m.kind, <<0, Saturate(Activation(m, b, i, mask))>>)]]

\* torch.exp: strictly increasing, so the order within a row is kept
ExpT(t) == [t EXCEPT !.scale = IF t.scale = "logprob" THEN "prob" ELSE t.scale]

\* index of the largest entry of a row (classes are numbered from 0)
ArgMax(row) == IF row[2] > row[1] THEN 1 ELSE 0

\* ps.topk(1, dim=1)[1]
TopClass(t) == [i \in 1..Len(t.rows) |-> ArgMax(t.rows[i])]

\* top_class == labels.view(*top_class.shape)
EqualsT(tc, lab) == [i \in 1..Len(tc) |-> tc[i] = lab[i]]

RECURSIVE CountTrue(_)
CountTrue(eq) ==
    IF eq = <<>> THEN 0
    ELSE (IF eq[1] THEN 1 ELSE 0) + CountTrue(Tail(eq))

\* torch.mean(equals.type(torch.FloatTensor)): a fraction, kept exact
MeanT(eq) == [num |-> CountTrue(eq), den |-> Len(eq)]

\* loss of one example: its true class missed
ExampleLoss(row, y) == IF ArgMax(row) = y THEN 0 ELSE 1

\* its derivative in the weight: nothing flows through a zeroed unit
ExampleGrad(row, y, isDropped) ==
    IF isDropped \/ ArgMax(row) = y THEN 0
    ELSE IF y = 1 THEN 1 ELSE -1

RECURSIVE SumSeq(_)
SumSeq(s) == IF s = <<>> THEN 0 ELSE s[1] + SumSeq(Tail(s))

\* criterion(output, labels): the mean over the batch of the loss of each
\* example; nn.CrossEntropyLoss takes the log-softmax of its input itself,
\* nn.NLLLoss reads its input as log-probabilities
LossOf(crit, out, lb) ==
    LET y == LabelsOf(lb)
    IN [val |-> SumSeq([i \in 1..Len(out.rows) |-> ExampleLoss(out.rows[i], y[i])]),
        g |-> SumSeq([i \in 1..Len(out.rows) |->
                        ExampleGrad(out.rows[i], y[i], i \in out.dropped)]),
        batch |-> out.batch,
        model |-> out.model,
        graph |-> IF out.graph THEN "live" ELSE "none",
        crit |-> crit,
        scale |-> out.scale]

\* what an accumulator holds, read as a number: .grad is None before the
\* first backward
Held(m) == IF m.grad = <<>> THEN 0 ELSE m.grad[1]

\* mutant: backward() that overwrites the accumulator
AccumulateOverwrites(m, l) ==
    [m EXCEPT !.grad = <<l.g>>,
              !.parts = Append(m.parts, l.batch),
              !.vals = Append(m.vals, l.g),
              !.reached = TRUE]

\* mutant: backward() that writes an empty accumulator only
AccumulateOnce(m, l) ==
    [m EXCEPT !.grad = IF m.grad = <<>> \/ m.vals = <<>> THEN <<l.g>> ELSE m.grad,
              !.parts = Append(m.parts, l.batch),
              !.vals = Append(m.vals, l.g),
              !.reached = TRUE]

\* loss.backward(): adds to what the accumulator holds; .parts and .vals
\* keep the batch and the gradient of each pass since the last zero_grad()
Accumulate(m, l) ==
    [m EXCEPT !.grad = <<Held(m) + l.g>>,
              !.parts = Append(m.parts, l.batch),
              !.vals = Append(m.vals, l.g),
              !.reached = TRUE]

\* mutant: zero_grad() leaves the gradients as they are
ZeroedNothing(m) == m

\* optimizer.zero_grad(): zeroes the gradients that exist
Zeroed(m) ==
    [m EXCEPT !.grad = IF m.grad = <<>> THEN <<>> ELSE <<0>>,
              !.parts = <<>>,
              !.vals = <<>>]

Sign(x) == IF x > 0 THEN 1 ELSE IF x < 0 THEN -1 ELSE 0

\* the direction an optimizer moves along: the gradient for SGD, the
\* magnitude-normalised gradient for Adam
Direction(kind, g) == IF kind = "Adam" THEN Sign(g) ELSE g

\* mutant: a step that climbs the gradient
SteppedUphill(m, o) ==
    IF m.grad = <<>> THEN m
    ELSE [m EXCEPT !.weight = m.weight + o.lr * Direction(o.kind, m.grad[1])]

\* optimizer.step(): p <- p - lr * direction; parameters without a
\* gradient are skipped; the gradient is left as it is
Stepped(m, o) ==
    IF m.grad = <<>> THEN m
    ELSE [m EXCEPT !.weight = m.weight - o.lr * Direction(o.kind, m.grad[1])]

\* ------------------------------------------------------------------- state
VARIABLES
    nb,            \* the notebook the kernel runs: "part4" or "part5"
    pc,            \* the statement to run next
    model,         \* model
    optimizer,     \* optimizer
    gradEnabled,   \* autograd's grad mode (torch.is_grad_enabled())
    epochs,        \* epochs
    e,             \* epochs of the running loop begun so far (range's position)
    trainIter,     \* batches the running iterator of trainloader still holds
    images,        \* images
    labels,        \* labels
    output,        \* logits / output / log_ps: result of a training forward
    loss,          \* loss
    running_loss,  \* running_loss
    timages,       \* testset (Classifier loop)
    tlabels,       \* testlabels (Classifier loop) / label (Network loop)
    test_out,      \* test_out (Classifier loop) / test (Network loop)
    test_ps,       \* test_ps
    top_class,     \* top_class
    equals,        \* equals, with the tensors it compares
    accuracy,      \* accuracy as printed
    reports,       \* lines printed by the running loop
    printed,       \* the training loss last printed
    criterion,     \* criterion
    img,           \* img: the image inference is made on
    logps,         \* logps (Part 4 inference)
    ps,            \* ps (inference)
    gradSaved,     \* grad mode kept by the entered torch.no_grad() block
    raised,        \* the stage that raised, "none" while nothing has
    xT,            \* x of the autograd cells
    zT,            \* z = (x**2).mean()
    steps,         \* steps
    train_losses,  \* train_losses
    test_losses,   \* test_losses
    losses,        \* history: batch and loss.item() of each step this epoch
    stages,        \* history: calls of the current training step, in order
    seen,          \* history: times each training batch was drawn this epoch
    tseen          \* history: times each test batch was drawn this validation

vars ==
    <<nb, pc, model, optimizer, gradEnabled, epochs, e, trainIter, images,
      labels, output, loss, running_loss, timages, tlabels, test_out, test_ps,
      top_class, equals, accuracy, reports, printed, criterion, img, logps,
      ps, gradSaved, raised, xT, zT, steps, train_losses, test_losses,
      losses, stages, seen, tseen, fault>>

valVars == <<timages, tlabels, test_out, test_ps, top_class, equals, accuracy>>
histVars == <<stages, seen, tseen>>
infVars == <<img, logps, ps, gradSaved>>
autoVars == <<xT, zT>>
bookVars == <<steps, train_losses, test_losses>>

NoX == [val |-> 0, grad |-> <<>>, requires_grad |-> FALSE]
NoZ == [val |-> 0, g |-> 0, graph |-> "none"]
UnboundInt == [bound |-> FALSE, val |-> 0]
UnboundList == [bound |-> FALSE, val |-> <<>>]

\* the values torch.randn can give an entry of x
XValues == {-2, 0, 2, 4}

NoEquals == [eq |-> <<>>, of |-> NoBatch, lab |-> NoBatch]
NoAccuracy == [num |-> 0, den |-> 0, of |-> NoBatch, lab |-> NoBatch]

ZeroSeen == [b \in TrainBatches |-> 0]
ZeroTSeen == [b \in TestBatches |-> 0]

\* ------------------------------------------------------------ control flow
\* Where each notebook starts.
FirstPc(n) == IF n = "part4" THEN "c1_model" ELSE "d5_model"

\* The first two cells of Part 4: a network that yields raw scores with
\* nn.CrossEntropyLoss, then one that ends in LogSoftmax with nn.NLLLoss.
IntroFlow(p) ==
    CASE p = "c1_model" -> "c1_crit"
      [] p = "c1_crit" -> "c1_next"
      [] p = "c1_next" -> "c1_flatten"
      [] p = "c1_flatten" -> "c1_forward"
      [] p = "c1_forward" -> "c1_loss"
      [] p = "c1_loss" -> "c2_model"
      [] p = "c2_model" -> "c2_crit"
      [] p = "c2_crit" -> "c2_next"
      [] p = "c2_next" -> "c2_flatten"
      [] p = "c2_flatten" -> "c2_forward"
      [] p = "c2_forward" -> "c2_loss"
      [] p = "c2_loss" -> "a1_x"
      [] OTHER -> "done"

\* The autograd cells of Part 4: x, z = (x**2).mean(), z.backward().
AutogradFlow(p) ==
    CASE p = "a1_x" -> "a2_z"
      [] p = "a2_z" -> "a3_backward"
      [] p = "a3_backward" -> "c3_model"
      [] OTHER -> "done"

\* mutant: the one-step cell calls backward() without a new forward pass
DemoFlowNoForward(p) ==
    CASE p = "c3_model" -> "c3_crit"
      [] p = "c3_crit" -> "c3_next"
      [] p = "c3_next" -> "c3_flatten"
      [] p = "c3_flatten" -> "c3_forward"
      [] p = "c3_forward" -> "c3_loss"
      [] p = "c3_loss" -> "c4_backward"
      [] p = "c4_backward" -> "c5_optim"
      [] p = "c5_optim" -> "c6_next"
      [] p = "c6_next" -> "c6_resize"
      [] p = "c6_resize" -> "c6_zero"
      [] p = "c6_zero" -> "c6_backward"
      [] p = "c6_backward" -> "c7_step"
      [] p = "c7_step" -> "c8_model"
      [] OTHER -> "done"

\* The cells before the loop of Part 4: forward and loss, backward, the
\* optimizer, one training step.
DemoFlow(p) ==
    CASE p = "c3_model" -> "c3_crit"
      [] p = "c3_crit" -> "c3_next"
      [] p = "c3_next" -> "c3_flatten"
      [] p = "c3_flatten" -> "c3_forward"
      [] p = "c3_forward" -> "c3_loss"
      [] p = "c3_loss" -> "c4_backward"
      [] p = "c4_backward" -> "c5_optim"
      [] p = "c5_optim" -> "c6_next"
      [] p = "c6_next" -> "c6_resize"
      [] p = "c6_resize" -> "c6_zero"
      [] p = "c6_zero" -> "c6_forward"
      [] p = "c6_forward" -> "c6_loss"
      [] p = "c6_loss" -> "c6_backward"
      [] p = "c6_backward" -> "c7_step"
      [] p = "c7_step" -> "c8_model"
      [] OTHER -> "done"

\* mutant: zero_grad() moved between backward() and step()
Part4BodyZeroBeforeStep(p) ==
    CASE p = "c8_batch" -> "c8_flatten"
      [] p = "c8_flatten" -> "c8_forward"
      [] p = "c8_forward" -> "c8_loss"
      [] p = "c8_loss" -> "c8_backward"
      [] p = "c8_backward" -> "c8_zero"
      [] p = "c8_zero" -> "c8_step"
      [] p = "c8_step" -> "c8_accum"
      [] p = "c8_accum" -> "c8_batch"
      [] OTHER -> "done"

\* The body of the batch loop of Part 4.
Part4Body(p) ==
    CASE p = "c8_batch" -> "c8_flatten"
      [] p = "c8_flatten" -> "c8_forward"
      [] p = "c8_forward" -> "c8_loss"
      [] p = "c8_loss" -> "c8_backward"
      [] p = "c8_backward" -> "c8_step"
      [] p = "c8_step" -> "c8_accum"
      [] p = "c8_accum" -> "c8_zero"
      [] p = "c8_zero" -> "c8_batch"
      [] OTHER -> "done"

\* mutant: step() called before backward()
ClassifierBodyStepFirst(p) ==
    CASE p = "d5_batch" -> "d5_zero"
      [] p = "d5_zero" -> "d5_forward"
      [] p = "d5_forward" -> "d5_loss"
      [] p = "d5_loss" -> "d5_step"
      [] p = "d5_step" -> "d5_backward"
      [] p = "d5_backward" -> "d5_accum"
      [] p = "d5_accum" -> "d5_batch"
      [] OTHER -> "done"

\* The body of the batch loop of the Classifier (Part 5).
ClassifierBody(p) ==
    CASE p = "d5_batch" -> "d5_zero"
      [] p = "d5_zero" -> "d5_forward"
      [] p = "d5_forward" -> "d5_loss"
      [] p = "d5_loss" -> "d5_backward"
      [] p = "d5_backward" -> "d5_step"
      [] p = "d5_step" -> "d5_accum"
      [] p = "d5_accum" -> "d5_batch"
      [] OTHER -> "done"

\* mutant: zero_grad() at the end of the step, as in Part 4
NetworkBodyZeroLast(p) ==
    CASE p = "d7_batch" -> "d7_forward"
      [] p = "d7_forward" -> "d7_loss"
      [] p = "d7_loss" -> "d7_backward"
      [] p = "d7_backward" -> "d7_step"
      [] p = "d7_step" -> "d7_accum"
      [] p = "d7_accum" -> "d7_zero"
      [] p = "d7_zero" -> "d7_batch"
      [] OTHER -> "done"

\* The body of the batch loop of the Network with dropout (Part 5).
NetworkBody(p) ==
    CASE p = "d7_batch" -> "d7_zero"
      [] p = "d7_zero" -> "d7_forward"
      [] p = "d7_forward" -> "d7_loss"
      [] p = "d7_loss" -> "d7_backward"
      [] p = "d7_backward" -> "d7_step"
      [] p = "d7_step" -> "d7_accum"
      [] p = "d7_accum" -> "d7_batch"
      [] OTHER -> "done"

\* The else branch of the batch loop of the Classifier.
ClassifierVal(p) ==
    CASE p = "d5_tnext" -> "d5_tforward"
      [] p = "d5_tforward" -> "d5_exp"
      [] p = "d5_exp" -> "d5_topk"
      [] p = "d5_topk" -> "d5_equals"
      [] p = "d5_equals" -> "d5_acc"
      [] p = "d5_acc" -> "d5_epoch"
      [] OTHER -> "done"

\* The else branch of the batch loop of the Network.
NetworkVal(p) ==
    CASE p = "d7_eval" -> "d7_tnext"
      [] p = "d7_tnext" -> "d7_tforward"
      [] p = "d7_tforward" -> "d7_exp"
      [] p = "d7_exp" -> "d7_topk"
      [] p = "d7_topk" -> "d7_equals"
      [] p = "d7_equals" -> "d7_acc"
      [] p = "d7_acc" -> "d7_epoch"
      [] OTHER -> "done"

\* The statements around the loops: construction, epochs, the epoch loop.
Setup(p) ==
    CASE p = "c8_model" -> "c8_crit"
      [] p = "c8_crit" -> "c8_optim"
      [] p = "c8_optim" -> "c8_epochs"
      [] p = "c8_epochs" -> "c8_epoch"
      [] p = "c8_epoch" -> "c8_iter"
      [] p = "c8_iter" -> "c8_batch"
      [] p = "c8_print" -> "c8_epoch"
      [] p = "d5_model" -> "d5_crit"
      [] p = "d5_crit" -> "d5_optim"
      [] p = "d5_optim" -> "d5_epochs"
      [] p = "d5_epochs" -> "d5_epoch"
      [] p = "d5_epoch" -> "d5_iter"
      [] p = "d5_iter" -> "d5_batch"
      [] p = "d6_model" -> "d6_crit"
      [] p = "d6_crit" -> "d6_optim"
      [] p = "d6_optim" -> "d7_epochs"
      [] p = "d7_epochs" -> "d7_train"
      [] p = "d7_train" -> "d7_epoch"
      [] p = "d7_epoch" -> "d7_iter"
      [] p = "d7_iter" -> "d7_batch"
      [] OTHER -> "done"

\* The inference cell that closes each notebook.
InferFlow(p) ==
    CASE p = "c9_next" -> "c9_img"
      [] p = "c9_img" -> "c9_enter"
      [] p = "c9_enter" -> "c9_forward"
      [] p = "c9_forward" -> "c9_exit"
      [] p = "c9_exit" -> "c9_exp"
      [] p = "d8_eval" -> "d8_next"
      [] p = "d8_next" -> "d8_img"
      [] p = "d8_img" -> "d8_enter"
      [] p = "d8_enter" -> "d8_forward"
      [] p = "d8_forward" -> "d8_exit"
      [] p = "d8_exit" -> "d8_exp"
      [] OTHER -> "done"

\* mutant: the exception is caught and the run goes on
OnRaiseSwallows(next) == next

\* mutant: steps counted from one
NewBookOneStep ==
    [steps |-> [bound |-> TRUE, val |-> 1],
     train_losses |-> [bound |-> TRUE, val |-> <<>>],
     test_losses |-> [bound |-> TRUE, val |-> <<>>]]

\* steps = 0; train_losses, test_losses = [], []
NewBook ==
    [steps |-> [bound |-> TRUE, val |-> 0],
     train_losses |-> [bound |-> TRUE, val |-> <<>>],
     test_losses |-> [bound |-> TRUE, val |-> <<>>]]

\* mutant: the parameters of the first model the notebook built
ParametersOfFirstModel(m) == 1

\* model.parameters(): the parameter tensors of this instance
ParametersOf(m) == m.id

\* mutant: a range that yields one value more
HasNextEpochInclusive(i, n) == i <= n

\* for e in range(epochs): the range has a value left after i values
HasNextEpoch(i, n) == i < n

\* mutant: the loop ends with a batch left in the iterator
ExhaustedEarly(it) == Cardinality(it) <= 1

\* for ... in trainloader: the iterator raised StopIteration
Exhausted(it) == it = {}

\* Where control goes when a statement raises, given the statement that
\* would have run next: no cell catches anything, the exception ends the
\* run.
OnRaise(next) == "error"

\* mutant: grad mode stays off when the block is left
RestoredLeavesOff(prev) == FALSE

\* torch.no_grad().__exit__: grad mode is set back to what it was when the
\* block was entered, however the block is left
Restored(prev) == prev

\* mutant: the call does not change the mode
SetModeIgnored(m, flag) == m

\* mutant: a mode call that drops the gradients as well
SetModeDropsGrad(m, flag) == [m EXCEPT !.training = flag, !.grad = <<>>]

\* model.train() / model.eval()
SetMode(m, flag) == [m EXCEPT !.training = flag]

\* The statement that follows a statement which neither loops nor fails.
After(p) ==
    CASE IntroFlow(p) # "done" -> IntroFlow(p)
      [] AutogradFlow(p) # "done" -> AutogradFlow(p)
      [] DemoFlow(p) # "done" -> DemoFlow(p)
      [] Part4Body(p) # "done" -> Part4Body(p)
      [] ClassifierBody(p) # "done" -> ClassifierBody(p)
      [] NetworkBody(p) # "done" -> NetworkBody(p)
      [] ClassifierVal(p) # "done" -> ClassifierVal(p)
      [] NetworkVal(p) # "done" -> NetworkVal(p)
      [] InferFlow(p) # "done" -> InferFlow(p)
      [] OTHER -> Setup(p)

\* for ... else: the else branch of the batch loop, run when the iterator
\* is exhausted
ElseOf(p) ==
    CASE p = "c8_batch" -> "c8_print"
      [] p = "d5_batch" -> "d5_tnext"
      [] p = "d7_batch" -> "d7_eval"
      [] OTHER -> "done"

\* the statement after the epoch loop
ExitOf(p) ==
    CASE p = "c8_epoch" -> "c9_next"
      [] p = "d5_epoch" -> "d6_model"
      [] p = "d7_epoch" -> "d8_eval"
      [] OTHER -> "done"


NoTopClass == [cls |-> <<>>, of |-> NoBatch]
NoPrinted == [num |-> 0, den |-> 0]

\* what each construction site builds
KindAt(p) ==
    CASE p = "c1_model" -> "SequentialRaw"
      [] p = "d5_model" -> "Classifier"
      [] p = "d6_model" -> "Network"
      [] OTHER -> "Sequential"

\* mutant: nn.NLLLoss() in every cell
CriterionAtAlwaysNLL(p) == "NLLLoss"

\* the criterion each cell constructs
CriterionAt(p) == IF p = "c1_crit" THEN "CrossEntropyLoss" ELSE "NLLLoss"

OptimKindAt(p) == IF p \in {"d5_optim", "d6_optim"} THEN "Adam" ELSE "SGD"

LrAt(p) ==
    CASE p = "c5_optim" -> LrDemo
      [] p = "c8_optim" -> LrPart4
      [] OTHER -> LrPart5

EpochsAt(p) == IF p = "c8_epochs" THEN EpochsPart4 ELSE EpochsPart5

\* the loader each next(iter(...)) reads
LoaderAt(p) == IF p = "d8_next" THEN "test" ELSE "train"

\* the tensors the validation statements of each loop read
ValInput(p) == IF p = "d5_tforward" THEN timages ELSE images
ExpSource(p) == IF p = "d5_exp" THEN test_out ELSE output
EqualsLabels(p) == IF p = "d5_equals" THEN tlabels ELSE labels

\* -------------------------------------------------------------------- Init
\* nothing is bound yet
InitNames ==
    /\ gradEnabled = TRUE
    /\ epochs = 0
    /\ e = 0
    /\ trainIter = {}
    /\ images = NoImages
    /\ labels = NoBatch
    /\ output = NoTensor
    /\ loss = NoLoss
    /\ running_loss = 0
    /\ timages = NoImages
    /\ tlabels = NoBatch
    /\ test_out = NoTensor
    /\ test_ps = NoTensor
    /\ top_class = NoTopClass
    /\ equals = NoEquals
    /\ accuracy = NoAccuracy
    /\ reports = 0
    /\ printed = NoPrinted
    /\ img = NoImages
    /\ logps = NoTensor
    /\ ps = NoTensor
    /\ gradSaved = TRUE
    /\ raised = "none"
    /\ xT = NoX
    /\ zT = NoZ
    /\ steps = UnboundInt
    /\ train_losses = UnboundList
    /\ test_losses = UnboundList
    /\ losses = <<>>
    /\ stages = <<>>
    /\ seen = ZeroSeen
    /\ tseen = ZeroTSeen

\* a kernel about to run one of the notebooks from its first cell
InitKernel ==
    /\ nb \in {"part4", "part5"}
    /\ pc = FirstPc(nb)
    /\ model = NoModel
    /\ optimizer = NoOptimizer
    /\ criterion = "none"
    /\ InitNames

\* ----------------------------------------------------------------- actions
\* model = nn.Sequential(...) / Classifier() / Network()
NewModel ==
    /\ pc \in {"c1_model", "c2_model", "c3_model", "c8_model", "d5_model",
               "d6_model"}
    /\ model' = FreshModel(model.id + 1, KindAt(pc))
    /\ pc' = After(pc)
    /\ UNCHANGED <<nb, optimizer, gradEnabled, epochs, e, trainIter, images,
                   labels, output, loss, running_loss, reports, printed>>
    /\ UNCHANGED valVars
    /\ UNCHANGED histVars
    /\ UNCHANGED <<criterion, fault, raised>>
    /\ UNCHANGED infVars
    /\ UNCHANGED losses
    /\ UNCHANGED autoVars
    /\ UNCHANGED bookVars

\* the run on the data the notebooks download
Init == InitKernel /\ fault = NoFault

\* a run on data that may hold one defect
InitFault == InitKernel /\ fault \in Faults

\* criterion = nn.CrossEntropyLoss() / nn.NLLLoss()
NewCriterion ==
    /\ pc \in {"c1_crit", "c2_crit", "c3_crit", "c8_crit", "d5_crit", "d6_crit"}
    /\ criterion' = CriterionAt(pc)
    /\ pc' = After(pc)
    /\ UNCHANGED <<nb, model, optimizer, gradEnabled, epochs, e, trainIter,
                   images, labels, output, loss, running_loss, reports,
                   printed, fault, raised, losses>>
    /\ UNCHANGED valVars
    /\ UNCHANGED histVars
    /\ UNCHANGED infVars
    /\ UNCHANGED autoVars
    /\ UNCHANGED bookVars

\* optimizer = optim.SGD(model.parameters(), lr=...) / optim.Adam(...)
NewOptimizer ==
    /\ pc \in {"c5_optim", "c8_optim", "d5_optim", "d6_optim"}
    /\ optimizer' = [kind |-> OptimKindAt(pc), lr |-> LrAt(pc),
                     over |-> ParametersOf(model), t |-> 0]
    /\ pc' = After(pc)
    /\ UNCHANGED <<nb, model, gradEnabled, epochs, e, trainIter, images,
                   labels, output, loss, running_loss, reports, printed>>
    /\ UNCHANGED valVars
    /\ UNCHANGED histVars
    /\ UNCHANGED <<criterion, fault, raised>>
    /\ UNCHANGED infVars
    /\ UNCHANGED losses
    /\ UNCHANGED autoVars
    /\ UNCHANGED bookVars

\* images, labels = next(iter(trainloader))
NextBatch ==
    /\ pc \in {"c1_next", "c2_next", "c3_next", "c6_next", "c9_next", "d8_next"}
    /\ \E b \in CanYield(LoaderAt(pc), 1..LoaderLen(LoaderAt(pc))) :
          /\ images' = ImagesOf(BatchRef(LoaderAt(pc), b))
          /\ labels' = BatchRef(LoaderAt(pc), b)
    /\ stages' = <<>>
    /\ pc' = After(pc)
    /\ UNCHANGED <<nb, model, optimizer, gradEnabled, epochs, e, trainIter,
                   output, loss, running_loss, reports, printed, seen, tseen>>
    /\ UNCHANGED valVars
    /\ UNCHANGED <<criterion, fault, raised>>
    /\ UNCHANGED infVars
    /\ UNCHANGED losses
    /\ UNCHANGED autoVars
    /\ UNCHANGED bookVars

\* images = images.view(images.shape[0], -1) / images.resize_(64, 784)
Flatten ==
    /\ pc \in {"c1_flatten", "c2_flatten", "c3_flatten", "c6_resize",
               "c8_flatten"}
    /\ images' = [images EXCEPT !.flat = TRUE,
                                 !.ok = (pc = "c6_resize") \/ @]
    /\ pc' = After(pc)
    /\ UNCHANGED <<nb, model, optimizer, gradEnabled, epochs, e, trainIter,
                   labels, output, loss, running_loss, reports, printed>>
    /\ UNCHANGED valVars
    /\ UNCHANGED histVars
    /\ UNCHANGED <<criterion, fault, raised>>
    /\ UNCHANGED infVars
    /\ UNCHANGED losses
    /\ UNCHANGED autoVars
    /\ UNCHANGED bookVars

\* epochs = 10 / epochs = 30 (in the Classifier cell, with steps = 0 and
\* train_losses, test_losses = [], []): the loop that follows starts a new
\* range
SetEpochs ==
    /\ pc \in {"c8_epochs", "d5_epochs", "d7_epochs"}
    /\ epochs' = EpochsAt(pc)
    /\ e' = 0
    /\ reports' = 0
    /\ IF pc = "d5_epochs"
       THEN /\ steps' = NewBook.steps
            /\ train_losses' = NewBook.train_losses
            /\ test_losses' = NewBook.test_losses
       ELSE UNCHANGED bookVars
    /\ pc' = After(pc)
    /\ UNCHANGED <<nb, model, optimizer, gradEnabled, trainIter, images,
                   labels, output, loss, running_loss, printed>>
    /\ UNCHANGED valVars
    /\ UNCHANGED histVars
    /\ UNCHANGED <<criterion, fault, raised>>
    /\ UNCHANGED infVars
    /\ UNCHANGED losses
    /\ UNCHANGED autoVars

\* model.train()
ModelTrain ==
    /\ pc \in {"d7_train"}
    /\ model' = SetMode(model, TRUE)
    /\ pc' = After(pc)
    /\ UNCHANGED <<nb, optimizer, gradEnabled, epochs, e, trainIter, images,
                   labels, output, loss, running_loss, reports, printed>>
    /\ UNCHANGED valVars
    /\ UNCHANGED histVars
    /\ UNCHANGED <<criterion, fault, raised>>
    /\ UNCHANGED infVars
    /\ UNCHANGED losses
    /\ UNCHANGED autoVars
    /\ UNCHANGED bookVars

\* model.eval()
ModelEval ==
    /\ pc \in {"d7_eval", "d8_eval"}
    /\ model' = SetMode(model, FALSE)
    /\ pc' = After(pc)
    /\ UNCHANGED <<nb, optimizer, gradEnabled, epochs, e, trainIter, images,
                   labels, output, loss, running_loss, reports, printed>>
    /\ UNCHANGED valVars
    /\ UNCHANGED histVars
    /\ UNCHANGED <<criterion, fault, raised>>
    /\ UNCHANGED infVars
    /\ UNCHANGED losses
    /\ UNCHANGED autoVars
    /\ UNCHANGED bookVars

\* for e in range(epochs): running_loss = 0
ForEpoch ==
    /\ pc \in {"c8_epoch", "d5_epoch", "d7_epoch"}
    /\ IF HasNextEpoch(e, epochs)
       THEN /\ e' = e + 1
            /\ running_loss' = 0
            /\ seen' = ZeroSeen
            /\ stages' = <<>>
            /\ losses' = <<>>
            /\ pc' = After(pc)
       ELSE /\ pc' = ExitOf(pc)
            /\ UNCHANGED <<e, running_loss, seen, stages, losses>>
    /\ UNCHANGED <<nb, model, optimizer, gradEnabled, epochs, trainIter,
                   images, labels, output, loss, reports, printed, tseen>>
    /\ UNCHANGED valVars
    /\ UNCHANGED <<criterion, fault, raised>>
    /\ UNCHANGED infVars
    /\ UNCHANGED autoVars
    /\ UNCHANGED bookVars

\* for images, labels in trainloader: the loop asks the loader for a new
\* iterator
IterTrain ==
    /\ pc \in {"c8_iter", "d5_iter", "d7_iter"}
    /\ trainIter' = TrainBatches
    /\ pc' = After(pc)
    /\ UNCHANGED <<nb, model, optimizer, gradEnabled, epochs, e, images,
                   labels, output, loss, running_loss, reports, printed>>
    /\ UNCHANGED valVars
    /\ UNCHANGED histVars
    /\ UNCHANGED <<criterion, fault, raised>>
    /\ UNCHANGED infVars
    /\ UNCHANGED losses
    /\ UNCHANGED autoVars
    /\ UNCHANGED bookVars

\* for images, labels in trainloader: the next batch, or the else branch
ForBatch ==
    /\ pc \in {"c8_batch", "d5_batch", "d7_batch"}
    /\ IF Exhausted(trainIter)
       THEN /\ pc' = ElseOf(pc)
            /\ tseen' = ZeroTSeen
            /\ UNCHANGED <<trainIter, images, labels, seen>>
       ELSE /\ \E b \in CanYield("train", trainIter) :
                  /\ images' = ImagesOf(BatchRef("train", b))
                  /\ labels' = BatchRef("train", b)
                  /\ trainIter' = Remaining(trainIter, b)
                  /\ seen' = [seen EXCEPT ![b] = @ + 1]
            /\ pc' = After(pc)
            /\ UNCHANGED tseen
    /\ stages' = <<>>
    /\ UNCHANGED <<nb, model, optimizer, gradEnabled, epochs, e, output,
                   loss, running_loss, reports, printed>>
    /\ UNCHANGED valVars
    /\ UNCHANGED <<criterion, fault, raised>>
    /\ UNCHANGED infVars
    /\ UNCHANGED losses
    /\ UNCHANGED autoVars
    /\ UNCHANGED bookVars

\* optimizer.zero_grad()
ZeroGrad ==
    /\ pc \in {"c6_zero", "c8_zero", "d5_zero", "d7_zero"}
    /\ model' = IF optimizer.over = model.id THEN Zeroed(model) ELSE model
    /\ stages' = Append(stages, "zero_grad")
    /\ pc' = After(pc)
    /\ UNCHANGED <<nb, optimizer, gradEnabled, epochs, e, trainIter, images,
                   labels, output, loss, running_loss, reports, printed, seen,
                   tseen>>
    /\ UNCHANGED valVars
    /\ UNCHANGED <<criterion, fault, raised>>
    /\ UNCHANGED infVars
    /\ UNCHANGED losses
    /\ UNCHANGED autoVars
    /\ UNCHANGED bookVars

\* output = model(images)
Forward ==
    /\ pc \in {"c1_forward", "c2_forward", "c3_forward", "c6_forward",
               "c8_forward", "d5_forward", "d7_forward"}
    /\ IF InputWidth(images, FlattensInput(model.kind)) # model.layers[1].in
       THEN /\ pc' = OnRaise(After(pc))
            /\ raised' = "forward"
            /\ UNCHANGED <<output, stages>>
       ELSE /\ \E mask \in Masks(RefOf(images)) :
                  output' = ForwardPass(model, RefOf(images), mask, gradEnabled)
            /\ stages' = Append(stages, "forward")
            /\ pc' = After(pc)
            /\ UNCHANGED raised
    /\ UNCHANGED <<nb, model, optimizer, gradEnabled, epochs, e, trainIter,
                   images, labels, loss, running_loss, reports, printed, seen,
                   tseen>>
    /\ UNCHANGED valVars
    /\ UNCHANGED <<criterion, fault>>
    /\ UNCHANGED infVars
    /\ UNCHANGED losses
    /\ UNCHANGED autoVars
    /\ UNCHANGED bookVars

\* loss = criterion(output, labels)
Loss ==
    /\ pc \in {"c1_loss", "c2_loss", "c3_loss", "c6_loss", "c8_loss",
               "d5_loss", "d7_loss"}
    /\ IF Len(output.rows) # BatchLen(labels) \/ ~LabelsOk(labels)
       THEN /\ pc' = OnRaise(After(pc))
            /\ raised' = "loss"
            /\ UNCHANGED <<loss, stages>>
       ELSE /\ loss' = LossOf(criterion, output, labels)
            /\ stages' = Append(stages, "loss")
            /\ pc' = After(pc)
            /\ UNCHANGED raised
    /\ UNCHANGED <<nb, model, optimizer, gradEnabled, epochs, e, trainIter,
                   images, labels, output, running_loss, reports, printed,
                   seen, tseen>>
    /\ UNCHANGED valVars
    /\ UNCHANGED <<criterion, fault>>
    /\ UNCHANGED infVars
    /\ UNCHANGED losses
    /\ UNCHANGED autoVars
    /\ UNCHANGED bookVars

\* loss.backward(): the graph is freed once it has been walked
Backward ==
    /\ pc \in {"c4_backward", "c6_backward", "c8_backward", "d5_backward",
               "d7_backward"}
    /\ IF loss.graph # "live"
       THEN /\ pc' = OnRaise(After(pc))
            /\ raised' = "backward"
            /\ UNCHANGED <<model, loss, stages>>
       ELSE /\ model' = IF loss.model = model.id THEN Accumulate(model, loss)
                        ELSE model
            /\ loss' = [loss EXCEPT !.graph = "consumed"]
            /\ stages' = Append(stages, "backward")
            /\ pc' = After(pc)
            /\ UNCHANGED raised
    /\ UNCHANGED <<nb, optimizer, gradEnabled, epochs, e, trainIter, images,
                   labels, output, running_loss, reports, printed, seen,
                   tseen>>
    /\ UNCHANGED valVars
    /\ UNCHANGED <<criterion, fault>>
    /\ UNCHANGED infVars
    /\ UNCHANGED losses
    /\ UNCHANGED autoVars
    /\ UNCHANGED bookVars

\* optimizer.step()
Step ==
    /\ pc \in {"c7_step", "c8_step", "d5_step", "d7_step"}
    /\ model' = IF optimizer.over = model.id THEN Stepped(model, optimizer)
                ELSE model
    /\ optimizer' = [optimizer EXCEPT !.t = @ + 1]
    /\ stages' = Append(stages, "step")
    /\ pc' = After(pc)
    /\ UNCHANGED <<nb, gradEnabled, epochs, e, trainIter, images, labels,
                   output, loss, running_loss, reports, printed, seen, tseen>>
    /\ UNCHANGED valVars
    /\ UNCHANGED <<criterion, fault, raised>>
    /\ UNCHANGED infVars
    /\ UNCHANGED losses
    /\ UNCHANGED autoVars
    /\ UNCHANGED bookVars

\* a running loss that forgets what it held
AddLossOverwrites(rl, l) == l.val

\* running_loss += loss.item()
AddLoss(rl, l) == rl + l.val

\* running_loss += loss.item()
Accum ==
    /\ pc \in {"c8_accum", "d5_accum", "d7_accum"}
    /\ running_loss' = AddLoss(running_loss, loss)
    /\ losses' = Append(losses, [batch |-> loss.batch, val |-> loss.val])
    /\ stages' = Append(stages, "accum")
    /\ pc' = After(pc)
    /\ UNCHANGED <<nb, model, optimizer, gradEnabled, epochs, e, trainIter,
                   images, labels, output, loss, reports, printed, seen,
                   tseen>>
    /\ UNCHANGED valVars
    /\ UNCHANGED <<criterion, fault, raised>>
    /\ UNCHANGED infVars
    /\ UNCHANGED autoVars
    /\ UNCHANGED bookVars

\* print(f"Training loss: {running_loss/len(trainloader)}")
PrintLoss ==
    /\ pc \in {"c8_print"}
    /\ printed' = [num |-> running_loss, den |-> LoaderLen("train")]
    /\ reports' = reports + 1
    /\ pc' = After(pc)
    /\ UNCHANGED <<nb, model, optimizer, gradEnabled, epochs, e, trainIter,
                   images, labels, output, loss, running_loss>>
    /\ UNCHANGED valVars
    /\ UNCHANGED histVars
    /\ UNCHANGED <<criterion, fault, raised>>
    /\ UNCHANGED infVars
    /\ UNCHANGED losses
    /\ UNCHANGED autoVars
    /\ UNCHANGED bookVars

\* testset, testlabels = next(iter(testloader))
TestNextClassifier ==
    /\ pc \in {"d5_tnext"}
    /\ \E b \in CanYield("test", TestBatches) :
          /\ timages' = ImagesOf(BatchRef("test", b))
          /\ tlabels' = BatchRef("test", b)
          /\ tseen' = [tseen EXCEPT ![b] = @ + 1]
    /\ pc' = After(pc)
    /\ UNCHANGED <<nb, model, optimizer, gradEnabled, epochs, e, trainIter,
                   images, labels, output, loss, running_loss, reports,
                   printed, stages, seen>>
    /\ UNCHANGED <<test_out, test_ps, top_class, equals, accuracy>>
    /\ UNCHANGED <<criterion, fault, raised>>
    /\ UNCHANGED infVars
    /\ UNCHANGED losses
    /\ UNCHANGED autoVars
    /\ UNCHANGED bookVars

\* images, label = next(iter(testloader))
TestNextNetwork ==
    /\ pc \in {"d7_tnext"}
    /\ \E b \in CanYield("test", TestBatches) :
          /\ images' = ImagesOf(BatchRef("test", b))
          /\ tlabels' = BatchRef("test", b)
          /\ tseen' = [tseen EXCEPT ![b] = @ + 1]
    /\ pc' = After(pc)
    /\ UNCHANGED <<nb, model, optimizer, gradEnabled, epochs, e, trainIter,
                   labels, output, loss, running_loss, reports, printed,
                   stages, seen>>
    /\ UNCHANGED <<timages, test_out, test_ps, top_class, equals, accuracy>>
    /\ UNCHANGED <<criterion, fault, raised>>
    /\ UNCHANGED infVars
    /\ UNCHANGED losses
    /\ UNCHANGED autoVars
    /\ UNCHANGED bookVars

\* test_out = model(testset) / test = model(images)
TestForward ==
    /\ pc \in {"d5_tforward", "d7_tforward"}
    /\ \E mask \in Masks(RefOf(ValInput(pc))) :
          test_out' = ForwardPass(model, RefOf(ValInput(pc)), mask, gradEnabled)
    /\ pc' = After(pc)
    /\ UNCHANGED <<nb, model, optimizer, gradEnabled, epochs, e, trainIter,
                   images, labels, output, loss, running_loss, reports,
                   printed>>
    /\ UNCHANGED <<timages, tlabels, test_ps, top_class, equals, accuracy>>
    /\ UNCHANGED histVars
    /\ UNCHANGED <<criterion, fault, raised>>
    /\ UNCHANGED infVars
    /\ UNCHANGED losses
    /\ UNCHANGED autoVars
    /\ UNCHANGED bookVars

\* test_ps = torch.exp(test_out) / test_ps = torch.exp(output)
TestExp ==
    /\ pc \in {"d5_exp", "d7_exp"}
    /\ test_ps' = ExpT(ExpSource(pc))
    /\ pc' = After(pc)
    /\ UNCHANGED <<nb, model, optimizer, gradEnabled, epochs, e, trainIter,
                   images, labels, output, loss, running_loss, reports,
                   printed>>
    /\ UNCHANGED <<timages, tlabels, test_out, top_class, equals, accuracy>>
    /\ UNCHANGED histVars
    /\ UNCHANGED <<criterion, fault, raised>>
    /\ UNCHANGED infVars
    /\ UNCHANGED losses
    /\ UNCHANGED autoVars
    /\ UNCHANGED bookVars

\* top_p, top_class = test_ps.topk(1, dim=1)
TopK ==
    /\ pc \in {"d5_topk", "d7_topk"}
    /\ top_class' = [cls |-> TopClass(test_ps), of |-> test_ps.batch]
    /\ pc' = After(pc)
    /\ UNCHANGED <<nb, model, optimizer, gradEnabled, epochs, e, trainIter,
                   images, labels, output, loss, running_loss, reports,
                   printed>>
    /\ UNCHANGED <<timages, tlabels, test_out, test_ps, equals, accuracy>>
    /\ UNCHANGED histVars
    /\ UNCHANGED <<criterion, fault, raised>>
    /\ UNCHANGED infVars
    /\ UNCHANGED losses
    /\ UNCHANGED autoVars
    /\ UNCHANGED bookVars

\* equals = top_class == testlabels.view(*top_class.shape)
\* equals = top_class == labels.view(*top_class.shape)
Equals ==
    /\ pc \in {"d5_equals", "d7_equals"}
    /\ IF Len(top_class.cls) # BatchLen(EqualsLabels(pc))
       THEN /\ pc' = OnRaise(After(pc))
            /\ raised' = "equals"
            /\ UNCHANGED equals
       ELSE /\ equals' = [eq |-> EqualsT(top_class.cls, LabelsOf(EqualsLabels(pc))),
                          of |-> top_class.of,
                          lab |-> EqualsLabels(pc)]
            /\ pc' = After(pc)
            /\ UNCHANGED raised
    /\ UNCHANGED <<nb, model, optimizer, gradEnabled, epochs, e, trainIter,
                   images, labels, output, loss, running_loss, reports,
                   printed>>
    /\ UNCHANGED <<timages, tlabels, test_out, test_ps, top_class, accuracy>>
    /\ UNCHANGED histVars
    /\ UNCHANGED <<criterion, fault>>
    /\ UNCHANGED infVars
    /\ UNCHANGED losses
    /\ UNCHANGED autoVars
    /\ UNCHANGED bookVars

\* accuracy = torch.mean(equals.type(torch.FloatTensor)); print(accuracy)
Accuracy ==
    /\ pc \in {"d5_acc", "d7_acc"}
    /\ accuracy' = [num |-> MeanT(equals.eq).num, den |-> MeanT(equals.eq).den,
                    of |-> equals.of, lab |-> equals.lab]
    /\ reports' = reports + 1
    /\ pc' = After(pc)
    /\ UNCHANGED <<nb, model, optimizer, gradEnabled, epochs, e, trainIter,
                   images, labels, output, loss, running_loss, printed>>
    /\ UNCHANGED <<timages, tlabels, test_out, test_ps, top_class, equals>>
    /\ UNCHANGED histVars
    /\ UNCHANGED <<criterion, fault, raised>>
    /\ UNCHANGED infVars
    /\ UNCHANGED losses
    /\ UNCHANGED autoVars
    /\ UNCHANGED bookVars

\* img = images[0].view(1, 784): raises when the image does not hold 784
\* values
TakeImage ==
    /\ pc \in {"c9_img", "d8_img"}
    /\ IF ~images.ok
       THEN /\ pc' = OnRaise(After(pc))
            /\ raised' = "view"
            /\ UNCHANGED img
       ELSE /\ img' = FirstImage(images)
            /\ pc' = After(pc)
            /\ UNCHANGED raised
    /\ UNCHANGED <<nb, model, optimizer, gradEnabled, epochs, e, trainIter,
                   images, labels, output, loss, running_loss, reports,
                   printed, criterion, fault, losses, logps, ps, gradSaved>>
    /\ UNCHANGED valVars
    /\ UNCHANGED histVars
    /\ UNCHANGED autoVars
    /\ UNCHANGED bookVars

\* with torch.no_grad(): entering the block keeps the mode and turns it off
EnterNoGrad ==
    /\ pc \in {"c9_enter", "d8_enter"}
    /\ gradSaved' = gradEnabled
    /\ gradEnabled' = FALSE
    /\ pc' = After(pc)
    /\ UNCHANGED <<nb, model, optimizer, epochs, e, trainIter, images, labels,
                   output, loss, running_loss, reports, printed, criterion,
                   fault, raised, losses, img, logps, ps>>
    /\ UNCHANGED valVars
    /\ UNCHANGED histVars
    /\ UNCHANGED autoVars
    /\ UNCHANGED bookVars

\* logps = model(img) / output = model.forward(img), inside the block; when
\* the call raises, the block is left through __exit__ all the same
InferForward ==
    /\ pc \in {"c9_forward", "d8_forward"}
    /\ IF fault.kind = "forward"
       THEN /\ gradEnabled' = Restored(gradSaved)
            /\ pc' = OnRaise(After(After(pc)))
            /\ raised' = "inference"
            /\ UNCHANGED <<logps, output>>
       ELSE /\ \E mask \in Masks(RefOf(img)) :
                  IF pc = "c9_forward"
                  THEN /\ logps' = ForwardPass(model, RefOf(img), mask, gradEnabled)
                       /\ UNCHANGED output
                  ELSE /\ output' = ForwardPass(model, RefOf(img), mask, gradEnabled)
                       /\ UNCHANGED logps
            /\ pc' = After(pc)
            /\ UNCHANGED <<gradEnabled, raised>>
    /\ UNCHANGED <<nb, model, optimizer, epochs, e, trainIter, images, labels,
                   loss, running_loss, reports, printed, criterion, fault,
                   losses, img, ps, gradSaved>>
    /\ UNCHANGED valVars
    /\ UNCHANGED histVars
    /\ UNCHANGED autoVars
    /\ UNCHANGED bookVars

\* the end of the with block
ExitNoGrad ==
    /\ pc \in {"c9_exit", "d8_exit"}
    /\ gradEnabled' = Restored(gradSaved)
    /\ pc' = After(pc)
    /\ UNCHANGED <<nb, model, optimizer, epochs, e, trainIter, images, labels,
                   output, loss, running_loss, reports, printed, criterion,
                   fault, raised, losses>>
    /\ UNCHANGED infVars
    /\ UNCHANGED valVars
    /\ UNCHANGED histVars
    /\ UNCHANGED autoVars
    /\ UNCHANGED bookVars

\* ps = torch.exp(logps) / ps = torch.exp(output)
InferExp ==
    /\ pc \in {"c9_exp", "d8_exp"}
    /\ ps' = ExpT(IF pc = "c9_exp" THEN logps ELSE output)
    /\ pc' = After(pc)
    /\ UNCHANGED <<nb, model, optimizer, gradEnabled, epochs, e, trainIter,
                   images, labels, output, loss, running_loss, reports,
                   printed, criterion, fault, raised, losses, img, logps,
                   gradSaved>>
    /\ UNCHANGED valVars
    /\ UNCHANGED histVars
    /\ UNCHANGED autoVars
    /\ UNCHANGED bookVars

\* x = torch.randn(2,2, requires_grad=True)
NewX ==
    /\ pc = "a1_x"
    /\ \E v \in XValues : xT' = [val |-> v, grad |-> <<>>, requires_grad |-> TRUE]
    /\ pc' = After(pc)
    /\ UNCHANGED <<nb, model, optimizer, gradEnabled, epochs, e, trainIter,
                   images, labels, output, loss, running_loss, reports,
                   printed, criterion, fault, raised, losses, zT>>
    /\ UNCHANGED valVars
    /\ UNCHANGED histVars
    /\ UNCHANGED infVars
    /\ UNCHANGED bookVars

\* y = x**2; z = y.mean(): dz/dx = x/2
SquareMean ==
    /\ pc = "a2_z"
    /\ zT' = [val |-> xT.val * xT.val, g |-> xT.val \div 2,
              graph |-> IF gradEnabled /\ xT.requires_grad THEN "live" ELSE "none"]
    /\ pc' = After(pc)
    /\ UNCHANGED <<nb, model, optimizer, gradEnabled, epochs, e, trainIter,
                   images, labels, output, loss, running_loss, reports,
                   printed, criterion, fault, raised, losses, xT>>
    /\ UNCHANGED valVars
    /\ UNCHANGED histVars
    /\ UNCHANGED infVars
    /\ UNCHANGED bookVars

\* z.backward()
ZBackward ==
    /\ pc = "a3_backward"
    /\ IF zT.graph # "live"
       THEN /\ pc' = OnRaise(After(pc))
            /\ raised' = "backward"
            /\ UNCHANGED <<xT, zT>>
       ELSE /\ xT' = [xT EXCEPT !.grad = <<(IF @ = <<>> THEN 0 ELSE @[1]) + zT.g>>]
            /\ zT' = [zT EXCEPT !.graph = "consumed"]
            /\ pc' = After(pc)
            /\ UNCHANGED raised
    /\ UNCHANGED <<nb, model, optimizer, gradEnabled, epochs, e, trainIter,
                   images, labels, output, loss, running_loss, reports,
                   printed, criterion, fault, losses>>
    /\ UNCHANGED valVars
    /\ UNCHANGED histVars
    /\ UNCHANGED infVars
    /\ UNCHANGED bookVars

Next ==
    \/ NewModel
    \/ NewCriterion
    \/ NewOptimizer
    \/ NextBatch
    \/ Flatten
    \/ SetEpochs
    \/ ModelTrain
    \/ ModelEval
    \/ ForEpoch
    \/ IterTrain
    \/ ForBatch
    \/ ZeroGrad
    \/ Forward
    \/ Loss
    \/ Backward
    \/ Step
    \/ Accum
    \/ PrintLoss
    \/ TestNextClassifier
    \/ TestNextNetwork
    \/ TestForward
    \/ TestExp
    \/ TopK
    \/ Equals
    \/ Accuracy
    \/ TakeImage
    \/ EnterNoGrad
    \/ InferForward
    \/ ExitNoGrad
    \/ InferExp
    \/ NewX
    \/ SquareMean
    \/ ZBackward

Spec == Init /\ [][Next]_vars

SpecFault == InitFault /\ [][Next]_vars

\* the kernel runs the statement at hand: a run never stops halfway
SpecLive == Spec /\ WF_vars(Next)

\* ----------------------------------------------------- an autograd session
\* The calls of the one-step cells of Part 4 (forward and loss, backward,
\* zero_grad, step), made in any order on one model, as a reader of the
\* notebook re-running those cells makes them.
sessionRest ==
    <<nb, gradEnabled, epochs, e, trainIter, running_loss, reports, printed,
      criterion, raised, losses, seen, tseen, fault>>

InitSession ==
    /\ nb = "session"
    /\ pc = "ready"
    /\ model = FreshModel(1, "Sequential")
    /\ optimizer = [kind |-> "SGD", lr |-> LrDemo, over |-> 1, t |-> 0]
    /\ criterion = "NLLLoss"
    /\ InitNames
    /\ fault = NoFault

\* images, labels = next(iter(trainloader)); images.resize_(64, 784);
\* output = model.forward(images); loss = criterion(output, labels)
SessionForward ==
    /\ pc \in {"ready", "have_loss"}
    /\ \E b \in CanYield("train", TrainBatches) :
          /\ images' = [ImagesOf(BatchRef("train", b)) EXCEPT !.flat = TRUE]
          /\ labels' = BatchRef("train", b)
          /\ output' = ForwardPass(model, BatchRef("train", b), {}, gradEnabled)
          /\ loss' = LossOf(criterion, output', BatchRef("train", b))
    /\ stages' = <<"forward", "loss">>
    /\ pc' = "have_loss"
    /\ UNCHANGED <<model, optimizer>>
    /\ UNCHANGED sessionRest
    /\ UNCHANGED valVars
    /\ UNCHANGED infVars
    /\ UNCHANGED autoVars
    /\ UNCHANGED bookVars

\* loss.backward()
SessionBackward ==
    /\ pc = "have_loss"
    /\ Len(model.vals) < MaxBackwards
    /\ model' = Accumulate(model, loss)
    /\ loss' = [loss EXCEPT !.graph = "consumed"]
    /\ stages' = Append(stages, "backward")
    /\ pc' = "ready"
    /\ UNCHANGED <<optimizer, images, labels, output>>
    /\ UNCHANGED sessionRest
    /\ UNCHANGED valVars
    /\ UNCHANGED infVars
    /\ UNCHANGED autoVars
    /\ UNCHANGED bookVars

\* optimizer.zero_grad()
SessionZeroGrad ==
    /\ pc = "ready"
    /\ model' = Zeroed(model)
    /\ stages' = <<"zero_grad">>
    /\ UNCHANGED <<pc, optimizer, images, labels, output, loss>>
    /\ UNCHANGED sessionRest
    /\ UNCHANGED valVars
    /\ UNCHANGED infVars
    /\ UNCHANGED autoVars
    /\ UNCHANGED bookVars

\* optimizer.step()
SessionStep ==
    /\ pc = "ready"
    /\ optimizer.t < MaxSteps
    /\ model' = Stepped(model, optimizer)
    /\ optimizer' = [optimizer EXCEPT !.t = @ + 1]
    /\ stages' = Append(stages, "step")
    /\ UNCHANGED <<pc, images, labels, output, loss>>
    /\ UNCHANGED sessionRest
    /\ UNCHANGED valVars
    /\ UNCHANGED infVars
    /\ UNCHANGED autoVars
    /\ UNCHANGED bookVars

NextSession ==
    \/ SessionForward
    \/ SessionBackward
    \/ SessionZeroGrad
    \/ SessionStep

SpecSession == InitSession /\ [][NextSession]_vars

\* ================================================================== claims
BatchPcs == {"c8_batch", "d5_batch", "d7_batch"}
StepPcs == {"c7_step", "c8_step", "d5_step", "d7_step"}
BackwardPcs ==
    {"c4_backward", "c6_backward", "c8_backward", "d5_backward", "d7_backward"}
ValForwardPcs == {"d5_tforward", "d7_tforward"}
EpochEndPcs == {"c8_print", "d5_tnext", "d7_eval"}
ReportedPcs == {"d5_epoch", "d7_epoch"}

\* positions of a call in the history of the current training step
IndexesOf(s, x) == {i \in 1..Len(s) : s[i] = x}

\* a training step of a loop has run to its end
StepComplete == pc \in BatchPcs /\ stages # <<>>

\* number of examples of the held-out set
RECURSIVE TestSetSize(_)
TestSetSize(n) ==
    IF n = 0 THEN 0 ELSE BatchLen(BatchRef("test", n)) + TestSetSize(n - 1)

\* C1: in the dropout training loop every training step of every epoch runs
\* with the model in train-mode: the forward pass whose loss is
\* backpropagated is made, and was made, with model.training set.
C1_TrainStepsInTrainMode ==
    /\ pc = "d7_forward" => model.training
    /\ pc \in {"d7_loss", "d7_backward", "d7_step"} => output.training

\* C2: every end-of-epoch validation forward pass runs with gradient
\* tracking suspended, so no validation output carries a recorded graph.
C2_ValidationUntracked ==
    /\ pc \in ValForwardPcs => ~gradEnabled
    /\ test_out # NoTensor => ~test_out.graph

\* C3: the accuracy reported at the end of an epoch compares the arg-max
\* classes of the forward output on the held-out batch with that batch's
\* labels: it is the fraction of matches on the held-out batch drawn for
\* this validation, and nothing of a training batch enters it.
C3_AccuracyOfHeldOutBatch ==
    (pc \in ReportedPcs /\ reports > 0) =>
        /\ accuracy.of = tlabels
        /\ accuracy.lab = tlabels
        /\ accuracy.of.src = "test"
        /\ accuracy.num = CountTrue(EqualsT(TopClass(test_out), LabelsOf(tlabels)))
        /\ accuracy.den = BatchLen(tlabels)

\* C4: each end-of-epoch evaluation visits every batch of the held-out
\* loader exactly once, and the accuracy printed is taken over the whole
\* held-out set.
C4_SweepVisitsEveryTestBatch ==
    (pc \in ReportedPcs /\ reports > 0) =>
        /\ \A b \in TestBatches : tseen[b] = 1
        /\ accuracy.den = TestSetSize(NumTestBatches)

\* C5: zero_grad() is called exactly once per training step, before the
\* step's forward pass or after its optimizer.step(), never between
\* backward() and step().
C5_ZeroGradOncePerStep ==
    /\ Cardinality(IndexesOf(stages, "zero_grad")) <= 1
    /\ \A i \in IndexesOf(stages, "zero_grad") :
          \/ IndexesOf(SubSeq(stages, 1, i), "forward") = {}
          \/ IndexesOf(SubSeq(stages, 1, i), "step") # {}
    /\ \A i \in IndexesOf(stages, "zero_grad") :
          IndexesOf(SubSeq(stages, 1, i), "backward") # {}
              => IndexesOf(SubSeq(stages, 1, i), "step") # {}
    /\ (StepComplete \/ pc = "c8_model")
          => Cardinality(IndexesOf(stages, "zero_grad")) = 1

C5_Witness ==
    /\ pc = "c8_batch"
    /\ e = 2
    /\ Len(stages) = 6
    /\ stages[5] = "accum"
    /\ stages[6] = "zero_grad"

\* C6: at every call of optimizer.step() the gradient accumulator holds the
\* gradient of the loss of exactly one batch, the batch of the current
\* step: one contribution, of that batch, with that batch's value.
C6_SingleBatchGradientAtStep ==
    pc \in StepPcs =>
        /\ model.parts = <<RefOf(images)>>
        /\ loss.batch = RefOf(images)
        /\ model.grad = <<LossOf(criterion, output, labels).g>>

C6_Witness ==
    /\ pc = "c7_step"
    /\ model.parts = <<RefOf(images)>>
    /\ loss.graph = "consumed"

\* C7: backward() is called at most once per forward pass: at every call
\* the graph of the loss is still live, and between two calls of one
\* training step there is a forward pass.
C7_BackwardOncePerForward ==
    /\ pc \in BackwardPcs => loss.graph = "live"
    /\ \A i, j \in IndexesOf(stages, "backward") :
          i < j => \E k \in i..j : stages[k] = "forward"

C7_Witness ==
    /\ pc = "c7_step"
    /\ loss.graph = "consumed"
    /\ stages = <<"zero_grad", "forward", "loss", "backward">>

\* C8: optimizer.step() is only called after forward, loss and backward of
\* the same training step, in that order, have populated the gradients,
\* and never twice for one backward.
C8_StepAfterBackward ==
    /\ pc \in StepPcs =>
          /\ model.grad # <<>>
          /\ loss.graph = "consumed"
          /\ stages # <<>>
          /\ stages[Len(stages)] = "backward"
    /\ \A i \in IndexesOf(stages, "step") :
          \E f, l, b \in 1..i :
              /\ f < l
              /\ l < b
              /\ b < i
              /\ stages[f] = "forward"
              /\ stages[l] = "loss"
              /\ stages[b] = "backward"
    /\ \A i, j \in IndexesOf(stages, "step") :
          i < j => \E k \in i..j : stages[k] = "backward"

C8_Witness ==
    /\ pc = "d5_accum"
    /\ e = 2
    /\ stages = <<"zero_grad", "forward", "loss", "backward", "step">>

\* the calls of a training step other than the bookkeeping of the loss
CoreStages(s) == SelectSeq(s, LAMBDA x : x # "accum")

\* C9 as stated: in every training loop the stages of a batch run in the
\* order forward, loss, backward, optimizer-step, zero-grad, and the batch
\* loss is added to the running total within the same iteration.
C9_StageOrderAsStated ==
    StepComplete =>
        /\ CoreStages(stages) = <<"forward", "loss", "backward", "step", "zero_grad">>
        /\ IndexesOf(stages, "accum") # {}

\* C9 as amended: the Part 4 loop runs forward, loss, backward,
\* optimizer-step, adds the batch loss, then zero-grad; the two Part 5 loops
\* run zero-grad first, then forward, loss, backward, optimizer-step, and
\* add the batch loss last.
C9_StageOrder ==
    /\ (pc = "c8_batch" /\ stages # <<>>) =>
          stages = <<"forward", "loss", "backward", "step", "accum", "zero_grad">>
    /\ (pc \in {"d5_batch", "d7_batch"} /\ stages # <<>>) =>
          stages = <<"zero_grad", "forward", "loss", "backward", "step", "accum">>

C9_Witness ==
    /\ pc = "d7_batch"
    /\ e = 2
    /\ stages = <<"zero_grad", "forward", "loss", "backward", "step", "accum">>

\* C10: in each epoch the training loop draws every batch of the training
\* loader exactly once and makes one training step per batch, and each
\* epoch starts from a new iterator that holds every batch.
C10_EveryBatchOncePerEpoch ==
    /\ \A b \in TrainBatches : seen[b] <= 1
    /\ pc \in EpochEndPcs => \A b \in TrainBatches : seen[b] = 1
    /\ pc \in BatchPcs =>
          /\ \A b \in TrainBatches : seen[b] = IF b \in trainIter THEN 0 ELSE 1
          /\ optimizer.t = (e - 1) * NumTrainBatches
                           + Cardinality(TrainBatches \ trainIter)
    /\ (pc \in BatchPcs /\ seen = ZeroSeen) => trainIter = TrainBatches

C10_Witness ==
    /\ pc = "c8_print"
    /\ e = 2
    /\ \A b \in TrainBatches : seen[b] = 1
    /\ optimizer.t = 2 * NumTrainBatches

LossVals == [i \in 1..Len(losses) |-> losses[i].val]
LossBatches == {losses[i].batch : i \in 1..Len(losses)}

\* C11: in the Part 4 loop the running loss is 0 when an epoch starts its
\* pass over the loader, it is the sum of the losses of the batches stepped
\* on so far in this epoch, at the print it is the sum of one loss for every
\* batch of the loader, and the value printed is that sum over
\* len(trainloader).
C11_RunningLossPerEpoch ==
    /\ pc = "c8_iter" => running_loss = 0 /\ losses = <<>>
    /\ pc \in {"c8_batch", "c8_print"} => running_loss = SumSeq(LossVals)
    /\ pc = "c8_print" =>
          /\ Len(losses) = LoaderLen("train")
          /\ LossBatches = {BatchRef("train", b) : b \in TrainBatches}
    /\ (pc = "c8_epoch" /\ reports > 0) =>
          printed = [num |-> SumSeq(LossVals), den |-> LoaderLen("train")]

C11_Witness ==
    /\ pc = "c8_epoch"
    /\ e = 2
    /\ printed.num > 0
    /\ printed.den = NumTrainBatches
    /\ Len(losses) = NumTrainBatches

\* C20: every loss was computed by a criterion that fits the scale of the
\* scores it was given: nn.NLLLoss on the log-probabilities of a network
\* that ends in log-softmax, nn.CrossEntropyLoss on the raw scores of a
\* network that ends in a Linear layer.
C20_CriterionFitsOutput ==
    loss # NoLoss =>
        /\ loss.crit = "NLLLoss" => loss.scale = "logprob"
        /\ loss.crit = "CrossEntropyLoss" => loss.scale = "logits"
        /\ loss.crit \in {"NLLLoss", "CrossEntropyLoss"}

C20_Witness ==
    /\ pc = "c2_model"
    /\ loss.crit = "CrossEntropyLoss"
    /\ loss.scale = "logits"
    /\ model.kind = "SequentialRaw"

NoGradPcs == {"c9_forward", "c9_exit", "d8_forward", "d8_exit"}

\* C12: every forward pass of the dropout Network made for validation or
\* for inference runs in eval-mode: model.eval() is the last mode call
\* before it, and the tensor it yields was computed with dropout off.
C12_NetworkInferenceInEvalMode ==
    /\ pc \in {"d7_tforward", "d8_forward"} => ~model.training
    /\ (pc \in {"d7_exp", "d7_topk", "d7_equals", "d7_acc"}) =>
          /\ test_out.model = model.id
          /\ ~test_out.training
          /\ test_out.dropped = {}
    /\ (pc \in {"d8_exit", "d8_exp"}) =>
          /\ output.model = model.id
          /\ ~output.training
          /\ output.dropped = {}

C12_Witness ==
    /\ pc = "d8_exit"
    /\ model.kind = "Network"
    /\ output.batch = RefOf(img)
    /\ img.src = "test[0]"
    /\ ~output.training

\* C13: grad mode is off only inside the torch.no_grad() block of an
\* inference cell, the forward inside the block records no graph, and the
\* mode the block was entered with is back once the block is left, both at
\* its end and when the forward inside it raises.
C13_NoGradIsScoped ==
    /\ ~gradEnabled <=> (pc \in NoGradPcs)
    /\ pc \in NoGradPcs => gradSaved
    /\ pc \in {"c9_exit", "c9_exp"} => ~logps.graph
    /\ pc \in {"d8_exit", "d8_exp"} => ~output.graph
    /\ raised = "inference" => gradEnabled

C13_Witness ==
    /\ raised = "inference"
    /\ fault.kind = "forward"
    /\ pc = "error"
    /\ gradEnabled
    /\ logps = NoTensor

\* C14: once a stage has raised, the run takes no further step: no later
\* stage, batch or epoch runs, and nothing is retried.
C14_FailureEndsRun == [][raised = "none"]_vars

C14_Witness ==
    /\ raised = "loss"
    /\ pc = "error"
    /\ fault = [kind |-> "label", batch |-> BatchRef("train", NumTrainBatches)]
    /\ e = 1
    /\ stages = <<"zero_grad", "forward">>

\* the accuracy the else branch of the loop at p computes when it is run
\* again and its next(iter(testloader)) yields batch b
RerunAccuracy(p, b) ==
    IF p = "d5_epoch"
    THEN MeanT(EqualsT(TopClass(ExpT(ForwardPass(model, b, {}, gradEnabled))),
                       LabelsOf(b)))
    ELSE MeanT(EqualsT(TopClass(ExpT(output)), LabelsOf(labels)))

SameFraction(a, b) == a.num * b.den = b.num * a.den

\* C15: once an evaluation pass has reported, running the pass again with
\* no training step in between reports the same accuracy, whatever batch
\* the held-out loader yields.
C15_EvaluationRepeatable ==
    (pc \in ReportedPcs /\ reports > 0) =>
        \A b \in CanYield("test", TestBatches) :
            SameFraction(RerunAccuracy(pc, BatchRef("test", b)), accuracy)

AllBatches ==
    {BatchRef("train", b) : b \in TrainBatches}
    \cup {BatchRef("test", b) : b \in TestBatches}

\* C16: for the dropout Network with its parameters as they stand, in
\* eval-mode any two forward passes on the same input give the same
\* output, whatever masks the dropout layers would draw; in train-mode
\* there is an input on which two passes with different masks differ.
C16_EvalForwardDeterministic ==
    model.kind = "Network" =>
        IF ~model.training
        THEN \A b \in AllBatches : \A m1, m2 \in Masks(b) :
                ForwardPass(model, b, m1, gradEnabled)
                    = ForwardPass(model, b, m2, gradEnabled)
        ELSE \E b \in AllBatches : \E m1, m2 \in Masks(b) :
                ForwardPass(model, b, m1, gradEnabled).rows
                    # ForwardPass(model, b, m2, gradEnabled).rows

C16_Witness ==
    /\ pc = "d7_tnext"
    /\ e = 2
    /\ model.kind = "Network"
    /\ ~model.training
    /\ model.weight # InitWeight
    /\ ForwardPass(model, RefOf(images), {}, gradEnabled)
          = ForwardPass(model, RefOf(images), {1}, gradEnabled)

SGDStepPcs == {"c7_step", "c8_step"}

\* C19: one step of the SGD optimizer moves the parameter from p to
\* p - lr * g, g being what the accumulator holds, and leaves the
\* accumulator, the rest of the model and the tensors of the step as they
\* were.
C19_SGDStepIsExact ==
    [][(pc \in SGDStepPcs) =>
          /\ optimizer.kind = "SGD"
          /\ model'.weight = model.weight - optimizer.lr * Held(model)
          /\ model'.grad = model.grad
          /\ [model' EXCEPT !.weight = 0] = [model EXCEPT !.weight = 0]
          /\ optimizer'.lr = optimizer.lr
          /\ UNCHANGED <<images, labels, output, loss, running_loss,
                         criterion, gradEnabled>>]_vars

C19_Witness ==
    /\ pc = "c8_accum"
    /\ optimizer.t = 1
    /\ Held(model) # 0
    /\ model.weight = InitWeight - LrPart4 * Held(model)

\* the statements of the validation passes and of the inference cells
PassPcs ==
    {"d5_tnext", "d5_tforward", "d5_exp", "d5_topk", "d5_equals", "d5_acc",
     "d7_eval", "d7_tnext", "d7_tforward", "d7_exp", "d7_topk", "d7_equals",
     "d7_acc", "c9_next", "c9_img", "c9_enter", "c9_forward", "c9_exit",
     "c9_exp", "d8_eval", "d8_next", "d8_img", "d8_enter", "d8_forward",
     "d8_exit", "d8_exp"}

\* C23: a parameter of a model instance changes only in optimizer.step();
\* no statement of a validation pass or of an inference cell changes a
\* parameter, a gradient accumulator or the optimizer.
C23_OnlyStepChangesParameters ==
    [][/\ (model'.id = model.id /\ model'.weight # model.weight) =>
              pc \in StepPcs
       /\ pc \in PassPcs =>
              /\ model'.weight = model.weight
              /\ model'.grad = model.grad
              /\ optimizer' = optimizer]_vars

C23_Witness ==
    /\ pc = "d7_epoch"
    /\ reports = 1
    /\ model.weight # InitWeight
    /\ model.grad # <<>>
    /\ optimizer.t = NumTrainBatches
    /\ ~model.training

\* C24: the gradient accumulator of a model instance is None exactly as
\* long as no backward pass has reached its parameters, and so is x.grad of
\* the autograd cells: None until z.backward(), x/2 after it.
C24_GradNoneUntilBackward ==
    /\ model.id # 0 => (model.grad = <<>> <=> ~model.reached)
    /\ pc \in {"c3_crit", "c3_next", "c3_flatten", "c3_forward", "c3_loss",
                "c4_backward"} => model.grad = <<>>
    /\ pc = "c5_optim" => model.grad = <<loss.g>>
    /\ pc \in {"a2_z", "a3_backward"} => xT.grad = <<>>
    /\ zT.graph = "consumed" => xT.grad = <<xT.val \div 2>>

C24_Witness ==
    /\ pc = "c5_optim"
    /\ model.reached
    /\ model.grad = <<loss.g>>
    /\ loss.g # 0
    /\ xT.grad = <<2>>

ZeroPcs == {"c6_zero", "c8_zero", "d5_zero", "d7_zero"}

\* C29: whenever zero_grad() or step() is called, the optimizer was built
\* over the parameters of the model instance that `model` names, and at
\* step() the loss that was backpropagated came from a forward pass of that
\* instance.
C29_OptimizerOverCurrentModel ==
    /\ pc \in ZeroPcs \cup StepPcs =>
          /\ optimizer.over = model.id
          /\ model.id # 0
    /\ pc \in StepPcs =>
          /\ loss.model = model.id
          /\ output.model = model.id

C29_Witness ==
    /\ pc = "c8_step"
    /\ nb = "part4"
    /\ model.id = 4
    /\ optimizer.over = 4
    /\ optimizer.lr = LrPart4
    /\ loss.model = 4

ElsePcs ==
    {"c8_print", "d5_tnext", "d5_tforward", "d5_exp", "d5_topk", "d5_equals",
     "d5_acc", "d7_eval", "d7_tnext", "d7_tforward", "d7_exp", "d7_topk",
     "d7_equals", "d7_acc"}

\* C28: the else block of the batch loop runs only when the epoch is over:
\* the iterator is exhausted, every batch of the loader has had its
\* training step in this epoch, and the report of this epoch is the only
\* one still to come; no training step runs before the block is done.
C28_ElseBlockAfterLastBatch ==
    pc \in ElsePcs =>
        /\ trainIter = {}
        /\ \A b \in TrainBatches : seen[b] = 1
        /\ optimizer.t = e * NumTrainBatches
        /\ Len(losses) = NumTrainBatches
        /\ reports = e - 1

C28_Witness ==
    /\ pc = "d5_topk"
    /\ e = 3
    /\ reports = 2
    /\ trainIter = {}
    /\ optimizer.t = 3 * NumTrainBatches

LoopExitPcs == {"c9_next", "d6_model", "d8_eval"}

\* one report per epoch, `epochs` epochs per loop
ReportsMatchEpochs ==
    /\ pc \in BatchPcs => (1 <= e /\ e <= epochs /\ reports = e - 1)
    /\ pc \in {"c8_epoch", "d5_epoch", "d7_epoch"} => reports = e
    /\ pc \in LoopExitPcs =>
          /\ e = epochs
          /\ reports = epochs
          /\ epochs = IF nb = "part4" THEN EpochsPart4 ELSE EpochsPart5

\* C27: every training loop runs `epochs` epochs, 10 in Part 4 and 30 in
\* Part 5, with one end-of-epoch report per epoch, so that it leaves the
\* loop with as many reports as epochs; and the run comes to its end.
C27_TerminatesWithOneReportPerEpoch ==
    /\ []ReportsMatchEpochs
    /\ <>(pc = "done" /\ e = epochs /\ reports = epochs)

C27_Witness ==
    /\ pc = "done"
    /\ nb = "part5"
    /\ e = EpochsPart5
    /\ reports = EpochsPart5
    /\ model.kind = "Network"

\* C22: nothing computed in an else block reads the tensors of a training
\* batch whose step is done: the probabilities, the classes compared and
\* the labels they are compared with are not those of a batch of the
\* training loader.
C22_TrainBatchNotReadAfterStep ==
    /\ pc \in {"d5_topk", "d7_topk"} => test_ps.batch.src # "train"
    /\ pc \in {"d5_equals", "d7_equals"} => top_class.of.src # "train"
    /\ pc \in {"d5_acc", "d7_acc"} =>
          /\ equals.of.src # "train"
          /\ equals.lab.src # "train"

\* C30: once the Classifier cell of Part 5 has bound them, steps is 0 and
\* train_losses and test_losses are empty, whatever the number of epochs
\* and of training steps made; the running loss is summed over the epoch
\* and no statement of the notebook prints it.
C30_BookkeepingUntouched ==
    /\ steps.bound <=>
          (nb = "part5" /\ pc \notin {"d5_model", "d5_crit", "d5_optim", "d5_epochs"})
    /\ steps.bound =>
          /\ steps.val = 0
          /\ train_losses = [bound |-> TRUE, val |-> <<>>]
          /\ test_losses = [bound |-> TRUE, val |-> <<>>]
    /\ nb = "part5" => printed = NoPrinted
    /\ pc = "d5_tnext" =>
          /\ running_loss = SumSeq(LossVals)
          /\ Len(losses) = NumTrainBatches

C30_Witness ==
    /\ pc = "d6_model"
    /\ e = EpochsPart5
    /\ optimizer.t = EpochsPart5 * NumTrainBatches
    /\ steps = [bound |-> TRUE, val |-> 0]
    /\ train_losses.val = <<>>
    /\ test_losses.val = <<>>
    /\ printed = NoPrinted

RECURSIVE FracSum(_)
FracSum(r) ==
    IF r = <<>> THEN [num |-> 0, den |-> 1]
    ELSE LET t == FracSum(Tail(r))
         IN [num |-> r[1].num * t.den + t.num * r[1].den, den |-> r[1].den * t.den]

\* a row of log-probabilities: every entry at most 0 (its exponential at
\* most 1), the exponentials summing to 1
ValidLogProbRow(r) ==
    /\ \A c \in 1..Len(r) : r[c].num > 0 /\ r[c].num <= r[c].den
    /\ FracSum(r).num = FracSum(r).den

ValidLogProbs(t) == \A i \in 1..Len(t.vals) : ValidLogProbRow(t.vals[i])

\* C21 as stated: every row of every forward output is a valid
\* log-probability vector.
C21_OutputsAreLogProbsAsStated ==
    /\ ValidLogProbs(output)
    /\ ValidLogProbs(test_out)
    /\ ValidLogProbs(logps)

\* C21: every row of the forward output of a network that ends in
\* log-softmax is a valid log-probability vector; the only output that is
\* not is that of the first network of Part 4, which ends in a Linear layer
\* and yields raw scores.
C21_LogSoftmaxOutputsAreLogProbs ==
    /\ \A t \in {output, test_out, logps} :
          /\ t.scale = "logprob" => ValidLogProbs(t)
          /\ t.scale = "logits" => (nb = "part4" /\ t.model = 1 /\ ~ValidLogProbs(t))
    /\ model.id # 0 =>
          (OutScale(model.kind) = "logits" <=> (nb = "part4" /\ model.id = 1))

C21_Witness ==
    /\ pc = "c8_loss"
    /\ e = 2
    /\ output.scale = "logprob"
    /\ Len(output.vals) = BatchSize
    /\ output.vals[1] # output.vals[2]
    /\ ValidLogProbs(output)

\* C25: in every network the notebooks build, each nn.Linear takes as many
\* features as the one before it gives, the first takes 784 and the last
\* gives 10: 784-128-64-10 for the Sequential networks, 784-256-128-64-10
\* for Classifier and Network.
C25_LayerWidthsChain ==
    model.id # 0 =>
        LET ls == model.layers
        IN /\ \A i \in 1..(Len(ls) - 1) : ls[i].out = ls[i + 1].in
           /\ ls[1].in = 784
           /\ ls[Len(ls)].out = 10
           /\ [i \in 1..Len(ls) |-> ls[i].out] =
                 IF model.kind \in {"Classifier", "Network"}
                 THEN <<256, 128, 64, 10>> ELSE <<128, 64, 10>>

C25_Witness ==
    /\ pc = "d6_crit"
    /\ model.kind = "Network"
    /\ Len(model.layers) = 4
    /\ model.layers[1].in = Pixels
    /\ model.layers[4].out = NumClasses

TrainForwardPcs ==
    {"c1_forward", "c2_forward", "c3_forward", "c6_forward", "c8_forward",
     "d5_forward", "d7_forward"}

\* C26: whatever reaches the first nn.Linear of a model is 784 wide and
\* holds at least one example: the cells of Part 4 flatten the images
\* before each call of the Sequential networks, the Part 5 networks flatten
\* in forward, the inference cells pass one image of 784 values; no
\* statement raises, the short last batch of an epoch included.
C26_InputWidthIs784 ==
    /\ pc \in TrainForwardPcs =>
          /\ InputWidth(images, FlattensInput(model.kind)) = 784
          /\ BatchLen(RefOf(images)) >= 1
          /\ nb = "part4" => images.flat
    /\ pc \in ValForwardPcs =>
          /\ InputWidth(ValInput(pc), FlattensInput(model.kind)) = 784
          /\ BatchLen(RefOf(ValInput(pc))) >= 1
    /\ pc \in {"c9_forward", "d8_forward"} =>
          /\ InputWidth(img, FlattensInput(model.kind)) = 784
          /\ BatchLen(RefOf(img)) = 1
    /\ raised = "none"
    /\ pc # "error"

C26_Witness ==
    /\ pc = "c8_loss"
    /\ images.id = NumTrainBatches
    /\ BatchLen(RefOf(images)) < BatchSize
    /\ images.flat
    /\ Len(output.rows) = BatchLen(RefOf(images))
    /\ raised = "none"
====
